---- MODULE Spec2Model ----
(***************************************************************************)
(* Model of scripts/validate_formatting.py: file discovery, the six        *)
(* formatting checks and the driver main().                                *)
(*                                                                         *)
(* A string is a sequence of one-character strings.  A file is a record    *)
(*   [path, kind, lines, fails, at]                                        *)
(* where lines is what iterating the opened file yields (each line keeps   *)
(* its terminator), kind is "file" or "dir", and fails/at say how reading  *)
(* goes: fails = FALSE when it succeeds; otherwise an exception is raised  *)
(* by open() when at = 0, and after at lines were delivered when at > 0.   *)
(***************************************************************************)
EXTENDS Naturals, Sequences, FiniteSets, TLC

VARIABLES
    pc,            \* position in the routine under analysis
    fsys,          \* the directory tree main() runs against: a set of entries
    cpp_files,     \* main(): result of find_cpp_files()
    ci,            \* main(): index into checks (outer loop)
    fi,            \* main(): index into cpp_files (inner loop)
    check_issues,  \* main(): issues of the current check
    all_issues,    \* main(): issues of all finished checks
    log,           \* the calls check_func(file_path) made so far, with results
    exit_code,     \* value returned by main(), meaningful once pc = "done"
    arg,           \* the file handed to a single check routine
    ret            \* the issues that routine returned

vars == <<pc, fsys, cpp_files, ci, fi, check_issues, all_issues, log,
          exit_code, arg, ret>>

\* ---------------------------------------------------------------- bounds
MaxFiles == 2
MaxPre == 11
MaxBody == 14
MaxPost == 1
MaxLenLines == 3
MaxIndentLines == 3
MaxGuardLines == 3

\* ------------------------------------------------------- program constants
max_length == 100
ExitCap == 10
ShortLimit == 10
IndentUnit == 4

\* ------------------------------------------------------------- characters
Letters == {"a","b","c","d","e","f","g","h","i","j","k","l","m","n","o","p",
            "q","r","s","t","u","v","w","x","y","z"}
Digits == {"0","1","2","3","4","5","6","7","8","9"}
\* \w of the re module
WordChars == Letters \cup Digits \cup {"_"}
\* \s of the re module, and what str.strip() removes by default
Whitespace == {" ", "\t", "\n", "\r"}
Terminators == {"\n", "\r"}

\* code points, for the ordering sorted() uses
Code(c) ==
    CASE c = "." -> 46
      [] c = "/" -> 47
      [] c = "_" -> 95
      [] c = "a" -> 97  [] c = "b" -> 98  [] c = "c" -> 99  [] c = "d" -> 100
      [] c = "e" -> 101 [] c = "f" -> 102 [] c = "g" -> 103 [] c = "h" -> 104
      [] c = "i" -> 105 [] c = "k" -> 107 [] c = "l" -> 108 [] c = "m" -> 109
      [] c = "n" -> 110 [] c = "o" -> 111 [] c = "p" -> 112 [] c = "r" -> 114
      [] c = "s" -> 115 [] c = "t" -> 116 [] c = "u" -> 117 [] c = "x" -> 120
      [] c = "y" -> 121 [] c = "z" -> 122
      [] OTHER -> 63

\* --------------------------------------------------------- str operations
Rep(c, n) == [i \in 1..n |-> c]

Drop(s, n) == SubSeq(s, n + 1, Len(s))

Take(s, n) == SubSeq(s, 1, n)

RECURSIVE rstrip(_, _)
rstrip(s, chars) ==
    IF s # <<>> /\ s[Len(s)] \in chars THEN rstrip(Take(s, Len(s) - 1), chars)
    ELSE s

RECURSIVE lstrip(_, _)
lstrip(s, chars) ==
    IF s # <<>> /\ s[1] \in chars THEN lstrip(Tail(s), chars)
    ELSE s

strip(s) == lstrip(rstrip(s, Whitespace), Whitespace)

startswith(s, p) == Len(s) >= Len(p) /\ Take(s, Len(p)) = p

endswith(s, p) == Len(s) >= Len(p) /\ Drop(s, Len(s) - Len(p)) = p

\* p in s
contains(s, p) == \E i \in 0..Len(s) : startswith(Drop(s, i), p)

RECURSIVE concat(_)
concat(ls) == IF ls = <<>> THEN <<>> ELSE Head(ls) \o concat(Tail(ls))

\* str < : lexicographic by code point
RECURSIVE StrLess(_, _)
StrLess(a, b) ==
    IF b = <<>> THEN FALSE
    ELSE IF a = <<>> THEN TRUE
    ELSE IF a[1] = b[1] THEN StrLess(Tail(a), Tail(b))
    ELSE Code(a[1]) < Code(b[1])

\* sorted(list of distinct strings)
RECURSIVE sorted(_)
sorted(S) ==
    IF S = {} THEN <<>>
    ELSE LET m == CHOOSE a \in S : \A b \in S \ {a} : StrLess(a, b)
         IN  <<m>> \o sorted(S \ {m})

\* -------------------------------------------------------- re operations
\* re.match(lit + r'\s+\w+', s): the literal, one or more \s, then a \w
MatchLitSpacesWord(lit, s) ==
    /\ startswith(s, lit)
    /\ LET rest == Drop(s, Len(lit))
           after == lstrip(rest, Whitespace)
       IN  /\ Len(after) < Len(rest)
           /\ after # <<>>
           /\ after[1] \in WordChars

\* re.match(lit + r'\w+', s): the literal, then a \w
MatchLitWord(lit, s) ==
    /\ startswith(s, lit)
    /\ Len(s) > Len(lit)
    /\ s[Len(lit) + 1] \in WordChars

\* re.search(lit + r'\s+(\w+)', s)
SearchLitSpacesWord(lit, s) ==
    \E i \in 0..Len(s) : MatchLitSpacesWord(lit, Drop(s, i))

\* the group (\w+) of a match of lit\s+(\w+): the longest run of \w
RECURSIVE WordRun(_)
WordRun(s) ==
    IF s # <<>> /\ s[1] \in WordChars THEN <<s[1]>> \o WordRun(Tail(s))
    ELSE <<>>

GroupLitSpacesWord(lit, s) == WordRun(lstrip(Drop(s, Len(lit)), Whitespace))

\* re.match(r'.*[^\w\s].*', s): '.' stops at a newline
HasPunctuation(s) ==
    \E i \in 1..Len(s) :
        /\ s[i] \notin WordChars \cup Whitespace
        /\ \A j \in 1..(i - 1) : s[j] # "\n"

\* ------------------------------------------------------------------ files
\* the strings the checks look for
S_namespace == <<"n","a","m","e","s","p","a","c","e">>
S_close1 == <<"}"," ","/","/"," ">> \o S_namespace \o <<" ">>
S_close2 == <<"}"," "," ","/","/"," ">> \o S_namespace \o <<" ">>
S_pragma == <<"#","p","r","a","g","m","a"," ","o","n","c","e">>
S_ifndef == <<"#","i","f","n","d","e","f">>
S_define == <<"#","d","e","f","i","n","e">>
S_endif == <<"#","e","n","d","i","f">>
Ext_cpp == <<".","c","p","p">>
Ext_hpp == <<".","h","p","p">>
Ext_h == <<".","h">>
Ext_cxx == <<".","c","x","x">>
Ext_cc == <<".","c","c">>

\* open(file_path) raises: a directory, or a file that cannot be opened
OpenFails(f) == f.kind = "dir" \/ (f.fails /\ f.at = 0)

\* an exception is raised somewhere between open() and the end of the file
ReadFails(f) == f.kind = "dir" \/ f.fails

\* the lines the iteration over the file delivers before any exception
Delivered(f) ==
    IF OpenFails(f) THEN <<>>
    ELSE IF f.fails /\ f.at < Len(f.lines) THEN Take(f.lines, f.at)
    ELSE f.lines

Issue(path, line, msg, detail) ==
    [file |-> path, line |-> line, msg |-> msg, detail |-> detail]

\* f"{file_path}: Error reading file - {e}"
ReadError(f) == Issue(f.path, 0, "Error reading file", <<>>)

\* ----------------------------------------------------------------- checks
\* mutant: all trailing whitespace is removed before the length is taken
RECURSIVE LineLengthScan_StripAll(_, _, _, _)
LineLengthScan_StripAll(path, lines, line_num, limit) ==
    IF line_num > Len(lines) THEN <<>>
    ELSE LET line_content == rstrip(lines[line_num], Whitespace)
             here == IF Len(line_content) > limit
                     THEN <<Issue(path, line_num, "Line too long",
                                  <<Len(line_content), limit>>)>>
                     ELSE <<>>
         IN  here \o LineLengthScan_StripAll(path, lines, line_num + 1, limit)

RECURSIVE LineLengthScan(_, _, _, _)
LineLengthScan(path, lines, line_num, limit) ==
    IF line_num > Len(lines) THEN <<>>
    ELSE LET line_content == rstrip(lines[line_num], Terminators)
             here == IF Len(line_content) > limit
                     THEN <<Issue(path, line_num, "Line too long",
                                  <<Len(line_content), limit>>)>>
                     ELSE <<>>
         IN  here \o LineLengthScan(path, lines, line_num + 1, limit)

\* mutant: the exception is swallowed without an issue
check_line_length_Silent(f, limit) == LineLengthScan(f.path, Delivered(f), 1, limit)

check_line_length(f, limit) ==
    LineLengthScan(f.path, Delivered(f), 1, limit)
        \o (IF ReadFails(f) THEN <<ReadError(f)>> ELSE <<>>)

RECURSIVE TrailingScan(_, _, _)
TrailingScan(path, lines, line_num) ==
    IF line_num > Len(lines) THEN <<>>
    ELSE LET line == lines[line_num]
             here == IF rstrip(line, Terminators) # rstrip(line, Whitespace)
                     THEN <<Issue(path, line_num, "Trailing whitespace", <<>>)>>
                     ELSE <<>>
         IN  here \o TrailingScan(path, lines, line_num + 1)

check_trailing_whitespace(f) ==
    TrailingScan(f.path, Delivered(f), 1)
        \o (IF ReadFails(f) THEN <<ReadError(f)>> ELSE <<>>)

check_tabs(f) ==
    IF ReadFails(f) THEN <<ReadError(f)>>
    ELSE IF contains(concat(f.lines), <<"\t">>)
         THEN <<Issue(f.path, 0, "Contains tab characters", <<>>)>>
         ELSE <<>>

IsHeaderPath(path) == endswith(path, Ext_hpp) \/ endswith(path, Ext_h)

\* mutant: '#pragma once' is not looked for
check_include_guards_NoPragma(f) ==
    IF ~IsHeaderPath(f.path) THEN <<>>
    ELSE IF ReadFails(f) THEN <<ReadError(f)>>
    ELSE LET content == concat(f.lines)
         IN  IF ~(/\ SearchLitSpacesWord(S_ifndef, content)
                  /\ SearchLitSpacesWord(S_define, content)
                  /\ contains(content, S_endif))
             THEN <<Issue(f.path, 0, "Missing or incomplete include guards", <<>>)>>
             ELSE <<>>

check_include_guards(f) ==
    IF ~IsHeaderPath(f.path) THEN <<>>
    ELSE IF ReadFails(f) THEN <<ReadError(f)>>
    ELSE LET content == concat(f.lines)
             ifndef_match == SearchLitSpacesWord(S_ifndef, content)
             define_match == SearchLitSpacesWord(S_define, content)
             endif_match == contains(content, S_endif)
         IN  IF contains(content, S_pragma) THEN <<>>
             ELSE IF ~(ifndef_match /\ define_match /\ endif_match)
                  THEN <<Issue(f.path, 0, "Missing or incomplete include guards", <<>>)>>
                  ELSE <<>>

\* mutant: the comparison is turned around
NamespaceTooLong_Flipped(opened_at, line_num) == line_num < ShortLimit

\* the test that decides whether an uncommented closing brace is reported
NamespaceTooLong(opened_at, line_num) == line_num > ShortLimit

RECURSIVE NamespaceScan(_, _, _, _)
NamespaceScan(path, lines, line_num, namespace_stack) ==
    IF line_num > Len(lines) THEN <<>>
    ELSE LET stripped == strip(lines[line_num])
             pushed == IF MatchLitSpacesWord(S_namespace, stripped)
                       THEN Append(namespace_stack,
                                   <<GroupLitSpacesWord(S_namespace, stripped), line_num>>)
                       ELSE namespace_stack
             closing == stripped = <<"}">> \/ startswith(stripped, <<"}", " ">>)
             pops == closing /\ pushed # <<>>
             popped == IF pops THEN Take(pushed, Len(pushed) - 1) ELSE pushed
             here == IF /\ pops
                        /\ ~MatchLitWord(S_close2, stripped)
                        /\ ~MatchLitWord(S_close1, stripped)
                        /\ NamespaceTooLong(pushed[Len(pushed)][2], line_num)
                     THEN <<Issue(path, line_num, "Missing namespace closing comment", <<>>)>>
                     ELSE <<>>
         IN  here \o NamespaceScan(path, lines, line_num + 1, popped)

check_namespace_comments(f) ==
    IF ReadFails(f) THEN <<ReadError(f)>>
    ELSE NamespaceScan(f.path, f.lines, 1, <<>>)

\* number of leading ' ' characters: len(line) - len(line.lstrip(' '))
LeadingSpace(line) == Len(line) - Len(lstrip(line, {" "}))

\* the condition under which a line is reported
IndentFlagged(line) ==
    /\ strip(line) # <<>>
    /\ LeadingSpace(line) > 0
    /\ LeadingSpace(line) % IndentUnit # 0
    /\ ~HasPunctuation(lstrip(line, Whitespace))

\* index of the first reported line at or after line_num, 0 when there is none
RECURSIVE IndentScan(_, _)
IndentScan(lines, line_num) ==
    IF line_num > Len(lines) THEN 0
    ELSE IF IndentFlagged(lines[line_num]) THEN line_num
    ELSE IndentScan(lines, line_num + 1)

\* mutant: the scan does not stop at the first reported line
RECURSIVE IndentAll(_, _, _)
IndentAll(path, lines, line_num) ==
    IF line_num > Len(lines) THEN <<>>
    ELSE (IF IndentFlagged(lines[line_num])
          THEN <<Issue(path, line_num, "Inconsistent indentation (not multiple of 4)", <<>>)>>
          ELSE <<>>) \o IndentAll(path, lines, line_num + 1)

check_indentation_NoBreak(f) ==
    IndentAll(f.path, Delivered(f), 1)
        \o (IF ReadFails(f) THEN <<ReadError(f)>> ELSE <<>>)

check_indentation(f) ==
    LET hit == IndentScan(Delivered(f), 1)
    IN  IF hit > 0
        THEN <<Issue(f.path, hit, "Inconsistent indentation (not multiple of 4)", <<>>)>>
        ELSE IF ReadFails(f) THEN <<ReadError(f)>> ELSE <<>>

\* --------------------------------------------------------- file discovery
roots == << <<"s","r","c">>, <<"i","n","c","l","u","d","e">>,
            <<"e","x","a","m","p","l","e","s">>, <<"t","e","s","t","s">> >>

extensions == {Ext_cpp, Ext_hpp, Ext_h, Ext_cxx, Ext_cc}

\* s.rfind(c), 1-based; 0 when c does not occur
RECURSIVE rfind(_, _)
rfind(s, c) ==
    IF s = <<>> THEN 0
    ELSE IF s[Len(s)] = c THEN Len(s)
    ELSE rfind(Take(s, Len(s) - 1), c)

\* PurePath.suffix: the last component's text from its last dot on, unless
\* that dot is the component's first or last character
suffix(path) ==
    LET name == Drop(path, rfind(path, "/"))
        i == rfind(name, ".")
    IN  IF 1 < i /\ i < Len(name) THEN Drop(name, i - 1) ELSE <<>>

\* os.path.exists(root)
exists(fs, path) == \E e \in fs : e.path = path

\* Path(root).rglob('*'): every entry beneath root, of any kind
rglob(fs, root) == {e \in fs : startswith(e.path, root \o <<"/">>)}

\* the test file discovery applies to each entry rglob yields
Selected(e) == suffix(e.path) \in extensions

\* the paths appended while walking one root
Matches(fs, root) ==
    IF exists(fs, root) THEN {e.path : e \in {x \in rglob(fs, root) : Selected(x)}}
    ELSE {}

\* cpp_files before sorting: roots in order; the order of a root's entries is
\* the directory's, of which one is taken
RECURSIVE Appended(_, _)
Appended(fs, k) ==
    IF k > Len(roots) THEN <<>>
    ELSE sorted(Matches(fs, roots[k])) \o Appended(fs, k + 1)

Range(s) == {s[i] : i \in 1..Len(s)}

find_cpp_files(fs) == sorted(Range(Appended(fs, 1)))

\* ------------------------------------------------------------------ driver
checks == <<"Line length", "Trailing whitespace", "Tab characters",
            "Include guards", "Namespace comments", "Indentation">>

\* the entry a path names
Lookup(fs, path) == CHOOSE e \in fs : e.path = path

\* check_func(file_path) for the check named check_name
RunCheck(check_name, f) ==
    CASE check_name = "Line length" -> check_line_length(f, max_length)
      [] check_name = "Trailing whitespace" -> check_trailing_whitespace(f)
      [] check_name = "Tab characters" -> check_tabs(f)
      [] check_name = "Include guards" -> check_include_guards(f)
      [] check_name = "Namespace comments" -> check_namespace_comments(f)
      [] check_name = "Indentation" -> check_indentation(f)

Min(a, b) == IF a < b THEN a ELSE b

\* mutant: the issue count is returned without the cap
ExitCode_Uncapped(issues) == Len(issues)

\* mutant: the count is taken one too high
ExitCode_OffByOne(issues) ==
    IF issues = <<>> THEN 0 ELSE Min(Len(issues) + 1, ExitCap)

\* the value main() returns once every check has run
ExitCode(issues) == IF issues = <<>> THEN 0 ELSE Min(Len(issues), ExitCap)

\* mutant: the empty file list is not tested, the loops run over nothing
Discover_NoEarlyReturn ==
    /\ pc = "start"
    /\ cpp_files' = find_cpp_files(fsys)
    /\ pc' = "loop"
    /\ UNCHANGED <<fsys, ci, fi, check_issues, all_issues, log, exit_code, arg, ret>>

\* cpp_files = find_cpp_files(); if not cpp_files: return 1
Discover ==
    /\ pc = "start"
    /\ cpp_files' = find_cpp_files(fsys)
    /\ IF cpp_files' = <<>>
       THEN /\ pc' = "done"
            /\ exit_code' = 1
       ELSE /\ pc' = "loop"
            /\ exit_code' = exit_code
    /\ UNCHANGED <<fsys, ci, fi, check_issues, all_issues, log, arg, ret>>

\* one pass of the inner loop: file_issues = check_func(file_path)
CheckFile ==
    /\ pc = "loop"
    /\ fi <= Len(cpp_files)
    /\ LET file_path == cpp_files[fi]
           file_issues == RunCheck(checks[ci], Lookup(fsys, file_path))
       IN  /\ check_issues' = check_issues \o file_issues
           /\ log' = Append(log, [check |-> checks[ci], path |-> file_path,
                                  issues |-> file_issues])
    /\ fi' = fi + 1
    /\ UNCHANGED <<pc, fsys, cpp_files, ci, all_issues, exit_code, arg, ret>>

\* the inner loop is over: all_issues.extend(check_issues), next check
EndCheck ==
    /\ pc = "loop"
    /\ fi > Len(cpp_files)
    /\ all_issues' = all_issues \o check_issues
    /\ check_issues' = <<>>
    /\ fi' = 1
    /\ IF ci < Len(checks)
       THEN /\ ci' = ci + 1
            /\ pc' = pc
       ELSE /\ ci' = ci
            /\ pc' = "summary"
    /\ UNCHANGED <<fsys, cpp_files, log, exit_code, arg, ret>>

\* the summary block and main()'s return value
Summary ==
    /\ pc = "summary"
    /\ exit_code' = ExitCode(all_issues)
    /\ pc' = "done"
    /\ UNCHANGED <<fsys, cpp_files, ci, fi, check_issues, all_issues, log, arg, ret>>

\* ------------------------------------------------------------------ inputs
P_a_cpp == <<"s","r","c","/","a",".","c","p","p">>
P_b_h == <<"s","r","c","/","b",".","h">>
P_c_hpp == <<"i","n","c","l","u","d","e","/","c",".","h","p","p">>
P_e_cxx == <<"t","e","s","t","s","/","e",".","c","x","x">>
P_f_cc == <<"s","r","c","/","f",".","c","c">>
P_g_cpp == <<"s","r","c","/","g",".","c","p","p">>
P_gen_h == <<"s","r","c","/","g","e","n",".","h">>
P_notes == <<"s","r","c","/","n","o","t","e","s",".","t","x","t">>
P_docs == <<"d","o","c","s","/","z",".","c","p","p">>
P_k_cpp == <<"s","r","c","/","s","u","b","/","k",".","c","p","p">>
P_dot_h == <<"i","n","c","l","u","d","e","/",".","h">>
P_examples == <<"e","x","a","m","p","l","e","s">>
L_filler == <<"i","n","t"," ","x",";","\n">>
L_ws == <<" ","\n">>
L_x_ws == <<"x"," ","\n">>
L_bad_indent == <<" "," ","y","\n">>
L_z == <<"z","\n">>
L_pragma == <<"#","p","r","a","g","m","a"," ","o","n","c","e","\n">>
L_ns_open == <<"n","a","m","e","s","p","a","c","e"," ","f","o","o"," ","{","\n">>
L_bare == <<"}","\n">>
L_fn_open == <<"v","o","i","d"," ","f","(",")"," ","{","\n">>
L_bare_indented == <<" "," "," "," ","}","\n">>
L_close1 == <<"}"," ","/","/"," ","n","a","m","e","s","p","a","c","e"," ","f","o","o","\n">>
L_close2 == <<"}"," "," ","/","/"," ","n","a","m","e","s","p","a","c","e"," ","f","o","o","\n">>
L_close_other == <<"}"," ","/","/"," ","e","n","d","\n">>
L_semicolon == <<"}",";","\n">>
L_blank == <<"\n">>
L_ind4 == <<" "," "," "," ","i","n","t"," ","x",";","\n">>
L_ind2_punct == <<" "," ","i","n","t"," ","x",";","\n">>
L_ind2_word == <<" "," ","e","l","s","e","\n">>
L_ind3_word == <<" "," "," ","r","e","t","u","r","n"," ","x","\n">>
L_ind6_punct == <<" "," "," "," "," "," ","f","o","o","(","x",")","\n">>
L_tab_word == <<"\t"," "," ","f","o","o","\n">>
L_ind2_tab == <<" "," ","\t","f","o","o","\n">>
L_ifndef == <<"#","i","f","n","d","e","f"," ","f","o","o","_","h","\n">>
L_define == <<"#","d","e","f","i","n","e"," ","f","o","o","_","h","\n">>
L_endif == <<"#","e","n","d","i","f","\n">>
L_ifndef_bare == <<"#","i","f","n","d","e","f","\n">>
L_define_glued == <<"#","d","e","f","i","n","e","f","o","o","\n">>
L_define_other == <<"#","d","e","f","i","n","e"," ","b","a","r"," ","1","\n">>
L_pragma_comment == <<"/","/"," ","#","p","r","a","g","m","a"," ","o","n","c","e","\n">>
L_pragma_twospace == <<"#","p","r","a","g","m","a"," "," ","o","n","c","e","\n">>
L_name == <<"f","o","o","_","h","\n">>

File(path, lines) ==
    [path |-> path, kind |-> "file", lines |-> lines, fails |-> FALSE, at |-> 0]

Failing(path, lines, at) ==
    [path |-> path, kind |-> "file", lines |-> lines, fails |-> TRUE, at |-> at]

Dir(path) ==
    [path |-> path, kind |-> "dir", lines |-> <<>>, fails |-> FALSE, at |-> 0]

\* the sequences over K of length at most n
SeqsUpTo(K, n) == UNION {[1..k -> K] : k \in 0..n}

L_long(n) == Rep("x", n) \o <<"\n">>

\* files of the trees main() is run against
Pool ==
    {File(P_a_cpp, <<L_filler>>),
     File(P_b_h, <<L_pragma, L_filler>>),
     Failing(P_b_h, <<L_filler>>, 0),
     File(P_c_hpp, <<L_filler>>),
     Failing(P_f_cc, <<L_filler>>, 0),
     Failing(P_g_cpp, <<L_x_ws, L_long(max_length + 1), L_bad_indent, L_z>>, 2),
     Failing(P_g_cpp, <<L_x_ws, L_long(max_length + 1), L_bad_indent, L_z>>, 3),
     Dir(P_gen_h),
     File(P_notes, <<L_filler>>),
     File(P_docs, <<L_filler>>),
     File(P_k_cpp, <<L_filler, L_tab_word>>),
     File(P_dot_h, <<L_filler>>)}
    \cup {File(P_e_cxx, Rep(L_ws, n)) : n \in {1, 9, 10, 37}}

\* the directories a path lies in
Ancestors(path) == {Take(path, i - 1) : i \in {j \in 1..Len(path) : path[j] = "/"}}

Tree(S) == S \cup {Dir(d) : d \in UNION {Ancestors(e.path) : e \in S}}

Trees ==
    {Tree(S \cup E) :
        S \in {T \in SUBSET Pool :
                 /\ Cardinality(T) <= MaxFiles
                 /\ \A e1, e2 \in T : e1.path = e2.path => e1 = e2},
        E \in SUBSET {Dir(P_examples)}}

NoFile == File(<<>>, <<>>)

Init ==
    /\ pc = "start"
    /\ fsys \in Trees
    /\ cpp_files = <<>>
    /\ ci = 1
    /\ fi = 1
    /\ check_issues = <<>>
    /\ all_issues = <<>>
    /\ log = <<>>
    /\ exit_code = 0
    /\ arg = NoFile
    /\ ret = <<>>

Next == Discover \/ CheckFile \/ EndCheck \/ Summary

Spec == Init /\ [][Next]_vars

\* ------------------------------------------- the checks, one call at a time
InitCall(inputs) ==
    /\ pc = "call"
    /\ arg \in inputs
    /\ ret = <<>>
    /\ fsys = {}
    /\ cpp_files = <<>>
    /\ ci = 1
    /\ fi = 1
    /\ check_issues = <<>>
    /\ all_issues = <<>>
    /\ log = <<>>
    /\ exit_code = 0

Call(check_name) ==
    /\ pc = "call"
    /\ ret' = RunCheck(check_name, arg)
    /\ pc' = "returned"
    /\ UNCHANGED <<fsys, cpp_files, ci, fi, check_issues, all_issues, log,
                   exit_code, arg>>

LineLengthLines ==
    {L_long(max_length - 1), L_long(max_length), L_long(max_length + 1),
     Rep("x", max_length - 1) \o <<" ", " ", "\n">>,
     Rep("x", max_length - 2) \o <<" ", "\n">>,
     Rep("x", max_length - 2) \o <<"\t", "\t", "\t", "\n">>,
     L_filler, L_blank}

LineLengthInputs == {File(P_a_cpp, ls) : ls \in SeqsUpTo(LineLengthLines, MaxLenLines)}

CallLineLength == Call("Line length")

SpecLineLength == InitCall(LineLengthInputs) /\ [][CallLineLength]_vars

IndentLines ==
    {L_blank, L_filler, L_ind4, L_ind2_punct, L_ind2_word, L_ind3_word,
     L_ind6_punct, L_tab_word, L_ind2_tab}

IndentInputs == {File(P_a_cpp, ls) : ls \in SeqsUpTo(IndentLines, MaxIndentLines)}

CallIndentation == Call("Indentation")

SpecIndentation == InitCall(IndentInputs) /\ [][CallIndentation]_vars

GuardLines ==
    {L_pragma, L_ifndef, L_define, L_endif, L_ifndef_bare, L_define_glued,
     L_pragma_comment, L_name, L_filler}

GuardInputs ==
    {File(p, ls) : p \in {P_a_cpp, P_b_h, P_c_hpp},
                   ls \in SeqsUpTo(GuardLines, MaxGuardLines)}

CallIncludeGuards == Call("Include guards")

SpecIncludeGuards == InitCall(GuardInputs) /\ [][CallIncludeGuards]_vars

\* a file with one namespace: pre lines, the opening line, body lines (when
\* inner = 1 the body starts with a function, whose closing brace is its
\* second line), the closing line, post lines
NsLines(pre, body, inner, close, post) ==
    Rep(L_filler, pre) \o <<L_ns_open>>
        \o [i \in 1..body |-> IF inner = 1 /\ i = 1 THEN L_fn_open
                              ELSE IF inner = 1 /\ i = 2 THEN L_bare
                              ELSE L_filler]
        \o <<close>> \o post

NsClosings == {L_bare, L_bare_indented, L_close1, L_close2, L_close_other, L_semicolon}

NsInputs ==
    {File(P_a_cpp, NsLines(pre, body, inner, close, post)) :
        pre \in 0..MaxPre, body \in 0..MaxBody, inner \in {0, 1},
        close \in NsClosings, post \in SeqsUpTo({L_filler, L_bare}, MaxPost)}

CallNamespaceComments == Call("Namespace comments")

SpecNamespaceComments == InitCall(NsInputs) /\ [][CallNamespaceComments]_vars

\* ------------------------------------------------------------ main(): claims
\* total number of issues the calls made so far returned
RECURSIVE Total(_)
Total(l) == IF l = <<>> THEN 0 ELSE Len(Head(l).issues) + Total(Tail(l))

Done == pc = "done"

\* C1: once main() has returned, the exit code is 1 if discovery returned no
\* files; otherwise 0 if the checks returned no issue at all; otherwise the
\* smaller of the total issue count and 10.  So it lies in 0..10, and is 10
\* whenever 10 or more issues were found.
C1_ExitCode ==
    Done =>
        /\ cpp_files = <<>> => exit_code = 1
        /\ cpp_files # <<>> /\ Total(log) = 0 => exit_code = 0
        /\ cpp_files # <<>> /\ Total(log) > 0 =>
               exit_code = (IF Total(log) < 10 THEN Total(log) ELSE 10)
        /\ exit_code \in 0..10
        /\ cpp_files # <<>> /\ Total(log) >= 10 => exit_code = 10

C1_Witness == Done /\ Total(log) = 37 /\ exit_code = 10

\* C2 as stated: the exit codes partition the outcomes; 0 means no issues,
\* 1 means no source files were discovered (and nothing else), and a run
\* that found files and at least one issue exits with a code in 2..10.
C2_Original ==
    Done =>
        /\ exit_code = 0 => cpp_files # <<>> /\ Total(log) = 0
        /\ exit_code = 1 => cpp_files = <<>>
        /\ cpp_files # <<>> /\ Total(log) > 0 =>
               /\ exit_code \in 2..10
               /\ exit_code = Min(Total(log), 10)

\* C2 amended: 0 means files were found and no issue; a run that found files
\* and at least one issue exits with min(total, 10), a code in 1..10; so exit
\* code 1 means that no files were discovered or that exactly one issue was
\* found.
C2_Amended ==
    Done =>
        /\ exit_code = 0 <=> (cpp_files # <<>> /\ Total(log) = 0)
        /\ cpp_files # <<>> /\ Total(log) > 0 =>
               /\ exit_code \in 1..10
               /\ exit_code = Min(Total(log), 10)
        /\ exit_code = 1 <=> (cpp_files = <<>> \/ Total(log) = 1)

C2_Witness == Done /\ cpp_files # <<>> /\ Total(log) = 1 /\ exit_code = 1

\* C3: when discovery returns nothing, main() returns 1 at once and no check
\* is ever called; otherwise each of the six checks has been called on each
\* discovered file by the time main() returns.
C3_ChecksRun ==
    /\ pc # "start" /\ cpp_files = <<>> => Done /\ exit_code = 1 /\ log = <<>>
    /\ Done /\ cpp_files # <<>> =>
           \A c \in 1..6 : \A k \in 1..Len(cpp_files) :
               \E i \in 1..Len(log) :
                   log[i].check = checks[c] /\ log[i].path = cpp_files[k]

C3_Witness ==
    /\ Done /\ cpp_files = <<>> /\ log = <<>> /\ exit_code = 1
    /\ \E e \in fsys : e.kind = "file"

\* the call check(f) opens and reads f
Reads(check, f) == check = "Include guards" => IsHeaderPath(f.path)

IsReadError(issue, f) == issue = ReadError(f)

\* C7 as stated: a check called on a file whose read fails, at open or part
\* way through, returns the read-failure issue and nothing else; the run goes
\* on with the other files and checks.
C7_Original ==
    /\ \A i \in 1..Len(log) :
           LET f == Lookup(fsys, log[i].path)
           IN  Reads(log[i].check, f) /\ ReadFails(f) =>
                   log[i].issues = <<ReadError(f)>>
    /\ Done /\ cpp_files # <<>> => Len(log) = 6 * Len(cpp_files)

\* C7 amended: a check call in which reading the file raises returns the
\* read-failure issue exactly once, as its last issue.  It is the only issue
\* when open() fails and in the checks that read the whole file before
\* scanning (tabs, include guards, namespace comments); line length and
\* trailing whitespace keep, before it, the issues of the lines delivered
\* before the failure.  The indentation check stops reading at the first
\* line it reports, so it returns either that one line's issue or the
\* read-failure issue alone.  The run goes on with the other files and checks.
C7_Amended ==
    /\ \A i \in 1..Len(log) :
           LET f == Lookup(fsys, log[i].path)
               c == log[i].check
               r == log[i].issues
               n == Len(r)
           IN  Reads(c, f) /\ ReadFails(f) =>
                   /\ n >= 1
                   /\ \A k \in 1..(n - 1) :
                          /\ ~IsReadError(r[k], f)
                          /\ r[k].line \in 1..f.at
                          /\ r[k].file = f.path
                   /\ c \in {"Tab characters", "Include guards", "Namespace comments"}
                          => r = <<ReadError(f)>>
                   /\ f.kind = "dir" \/ f.at = 0 => r = <<ReadError(f)>>
                   /\ c \in {"Line length", "Trailing whitespace"}
                          => IsReadError(r[n], f)
                   /\ c = "Indentation" =>
                          \/ r = <<ReadError(f)>>
                          \/ /\ n = 1
                             /\ r[1].line \in 1..f.at
                             /\ r[1].msg = "Inconsistent indentation (not multiple of 4)"
    /\ Done /\ cpp_files # <<>> => Len(log) = 6 * Len(cpp_files)

C7_Witness ==
    /\ Done
    /\ \E i \in 1..Len(log) :
           /\ log[i].check = "Line length"
           /\ Lookup(fsys, log[i].path).fails
           /\ Len(log[i].issues) = 2
           /\ log[i].issues[1].msg = "Line too long"
           /\ IsReadError(log[i].issues[2], Lookup(fsys, log[i].path))

\* the root directories, by name
IsRoot(p) == \E k \in 1..4 : p = roots[k]

\* the regular files with an allow-listed extension beneath an existing root
SourceFiles ==
    {e.path : e \in {x \in fsys :
        /\ x.kind = "file"
        /\ \E d \in Ancestors(x.path) : IsRoot(d) /\ Dir(d) \in fsys
        /\ suffix(x.path) \in extensions}}

\* C10 as stated: find_cpp_files() returns, in ascending path order, exactly
\* the regular files beneath the existing roots whose extension is in the
\* allow-list; a directory is never returned.
C10_Claim ==
    pc # "start" =>
        /\ \A i, j \in 1..Len(cpp_files) : i < j => StrLess(cpp_files[i], cpp_files[j])
        /\ \A k \in 1..Len(cpp_files) : Lookup(fsys, cpp_files[k]).kind = "file"
        /\ Range(cpp_files) = SourceFiles

\* ------------------------------------------------- single checks: claims
Returned == pc = "returned"

\* the set of line numbers of the issues in r
IssueLines(r) == {r[k].line : k \in 1..Len(r)}

\* number of characters of a line before its run of final terminators
ContentLen(line) ==
    CHOOSE n \in 0..Len(line) :
        /\ \A j \in (n + 1)..Len(line) : line[j] \in {"\n", "\r"}
        /\ n > 0 => line[n] \notin {"\n", "\r"}

\* the lines of the argument that exceed the limit
LongLines == {i \in 1..Len(arg.lines) : ContentLen(arg.lines[i]) > 100}

\* C8: check_line_length with limit 100 returns, for a readable file, exactly
\* one issue per line whose length without its terminator exceeds 100, in
\* ascending line order, each naming the line and its length; trailing
\* spaces and tabs count.
C8_LineLength ==
    Returned =>
        /\ Len(ret) = Cardinality(LongLines)
        /\ IssueLines(ret) = LongLines
        /\ \A k \in 1..Len(ret) :
               /\ ret[k].file = arg.path
               /\ ret[k].msg = "Line too long"
               /\ ret[k].detail = <<ContentLen(arg.lines[ret[k].line]), 100>>
        /\ \A k, l \in 1..Len(ret) : k < l => ret[k].line < ret[l].line

\* a file of two lines whose second is 101 characters long only because of
\* its trailing blanks
C8_Witness ==
    /\ Returned
    /\ Len(arg.lines) = 2
    /\ \E j \in 1..Len(arg.lines[2]) : arg.lines[2][j] = " "
    /\ ret = <<Issue(arg.path, 2, "Line too long", <<101, 100>>)>>

\* lit, then one or more blanks, then a word character, somewhere in s
HasDirective(s, lit) ==
    \E i \in 1..Len(s) : \E j \in 1..Len(s) :
        /\ i + Len(lit) < j
        /\ i + Len(lit) - 1 <= Len(s)
        /\ SubSeq(s, i, i + Len(lit) - 1) = lit
        /\ \A k \in (i + Len(lit))..(j - 1) : s[k] \in {" ", "\t", "\n", "\r"}
        /\ s[j] \in WordChars

HasText(s, lit) ==
    \E i \in 1..Len(s) :
        i + Len(lit) - 1 <= Len(s) /\ SubSeq(s, i, i + Len(lit) - 1) = lit

LeadCount(line) ==
    CHOOSE n \in 0..Len(line) :
        /\ \A j \in 1..n : line[j] = " "
        /\ n < Len(line) => line[n + 1] # " "

NonBlank(line) == \E j \in 1..Len(line) : line[j] \notin {" ", "\t", "\n", "\r"}

\* the non-blank lines indented by a positive non-multiple of 4
Misindented ==
    {i \in 1..Len(arg.lines) :
        /\ NonBlank(arg.lines[i])
        /\ LeadCount(arg.lines[i]) > 0
        /\ LeadCount(arg.lines[i]) % 4 # 0}

\* the lines made of word characters and blanks only
PlainLines ==
    {i \in 1..Len(arg.lines) :
        \A j \in 1..Len(arg.lines[i]) :
            arg.lines[i][j] \in WordChars \cup {" ", "\t", "\n", "\r"}}

FirstOf(S) == CHOOSE i \in S : \A j \in S : i <= j

IndentIssue(line) ==
    Issue(arg.path, line, "Inconsistent indentation (not multiple of 4)", <<>>)

\* C6 as stated: for a readable file, check_indentation returns one issue,
\* at the first non-blank line whose leading-space count is positive and not
\* a multiple of 4, if there is such a line, and nothing otherwise.
C6_Original ==
    Returned =>
        IF Misindented # {} THEN ret = <<IndentIssue(FirstOf(Misindented))>>
        ELSE ret = <<>>

\* C6 amended: only lines that hold nothing but word characters and
\* whitespace are reported.  The check returns one issue, at the first
\* non-blank line whose leading-space count is positive and not a multiple
\* of 4 and that holds no other character, if there is such a line, and
\* nothing otherwise; never more than one issue per file.
C6_Amended ==
    Returned =>
        /\ Len(ret) <= 1
        /\ IF Misindented \cap PlainLines # {}
           THEN ret = <<IndentIssue(FirstOf(Misindented \cap PlainLines))>>
           ELSE ret = <<>>

\* a misindented line with punctuation is passed over, a later plain one is
\* reported
C6_Witness ==
    /\ Returned
    /\ Len(arg.lines) = 3
    /\ 1 \in Misindented \ PlainLines
    /\ 2 \in Misindented \cap PlainLines
    /\ 3 \in Misindented \cap PlainLines
    /\ ret = <<IndentIssue(2)>>

NsIssue(line) == Issue(arg.path, line, "Missing namespace closing comment", <<>>)

\* the line on which the argument's namespace is opened
OpenLine == CHOOSE i \in 1..Len(arg.lines) : arg.lines[i] = L_ns_open

\* C4 as stated: a namespace whose opening line and the closing-brace line
\* that pops it are at most 10 lines apart yields no issue, wherever in the
\* file it sits: every issue is more than 10 lines after the opening line.
C4_Claim ==
    Returned => \A k \in 1..Len(ret) : ret[k].line - OpenLine > 10

\* C5 as stated: a namespace of 15 lines closed by a bare '}' yields exactly
\* one issue, at its closing line; closed by '} // namespace foo' it yields
\* none.
C5_Original ==
    Returned =>
        \A pre \in 0..MaxPre : \A inner \in {0, 1} :
            \A post \in SeqsUpTo({L_filler, L_bare}, MaxPost) :
                /\ arg.lines = NsLines(pre, 13, inner, L_bare, post)
                       => ret = <<NsIssue(pre + 15)>>
                /\ arg.lines = NsLines(pre, 13, inner, L_close1, post)
                       => ret = <<>>

\* C5 amended: in a readable file with a single namespace opening, of a
\* namespace of 15 lines with no closing-brace line between its opening and
\* its closing line, a bare '}' closing line yields exactly one issue, at
\* that line, and a '} // namespace foo' closing line yields none.
C5_Amended ==
    Returned =>
        \A pre \in 0..MaxPre :
            \A post \in SeqsUpTo({L_filler, L_bare}, MaxPost) :
                /\ arg.lines = NsLines(pre, 13, 0, L_bare, post)
                       => ret = <<NsIssue(pre + 15)>>
                /\ arg.lines = NsLines(pre, 13, 0, L_close1, post)
                       => ret = <<>>

C5_Witness ==
    /\ Returned
    /\ arg.lines = NsLines(0, 13, 0, L_bare, <<>>)
    /\ ret = <<NsIssue(15)>>

====
